---- MODULE Spec2Model ----
(***************************************************************************)
(* A model of HeadlessTwitterAgent (src/agent_headless.py): one action     *)
(* cycle of the agent (run_action_cycle) and the pure helpers it uses.     *)
(*                                                                         *)
(* Texts are sequences of one-character strings, so that len(), slicing,   *)
(* strip() and replace() are computed as Python computes them.  The        *)
(* backtick is written "bt" (one character).  Python values that the code  *)
(* handles without knowing their type (the parsed tweet_text, for one)     *)
(* are tagged records: Str(s), Num(n), List(items), None.                  *)
(***************************************************************************)
EXTENDS Integers, Sequences, FiniteSets, TLC

VARIABLES
    pc,             \* position of the run inside run_action_cycle
    config,         \* self.config, read-only after construction
    driver,         \* self.driver: "none" | "running" | "quit"
    quits,          \* number of driver.quit() calls
    action_type,    \* the Action Selector's choice: "none" | "post" | "reply"
    strategies,     \* the content strategies invoked so far, in order
    draft,          \* the generated text before _truncate_or_summarize
    enforced,       \* the value _truncate_or_summarize returned
    text,           \* the local variable `text` of perform_*_action
    query,          \* content_package["query_for_image"]
    target,         \* the engagement target of perform_reply_action
    image_path,     \* the local variable image_path: "none" | "temp"
    tempFile,       \* whether temp_post_image.jpg exists on disk
    removals,       \* number of os.remove calls on the temp image
    dispatches,     \* the dispatch attempts made, in order
    aiCalls,        \* the AI service responses consumed, in order
    logs,           \* the levels of the WARN and ERROR messages logged, in order
    raised,         \* exception that left run_action_cycle, or "none"
    tweet_history,  \* self.tweet_history
    trace,          \* the orchestrator's steps, in order
    source,         \* the input source the chosen strategy met
    login,          \* what _login_to_twitter returned: "none" | "ok" | "failed"
    lookups,        \* the outcomes of the image lookups made, in order
    ai,             \* one invocation of call_ai_model, under SpecAi
    prompts,        \* the prompts _create_master_prompt built, in order
    search          \* the result page and the sample drawn from it, under SpecDiscover

vars == <<pc, config, driver, quits, action_type, strategies, draft, enforced,
          text, query, target, image_path, tempFile, removals, dispatches,
          aiCalls, logs, raised, tweet_history, trace, source, login, lookups, ai, prompts, search>>

(***************************************************************************)
(* Program constants and model bounds.                                     *)
(***************************************************************************)
TWITTER_CHAR_LIMIT == 280

\* The fallback keeps TWITTER_CHAR_LIMIT - EllipsisLen characters.
EllipsisLen == 3

\* Texts up to TWITTER_CHAR_LIMIT + MaxExcess characters are drawn.
MaxExcess == 20

(***************************************************************************)
(* Python values.                                                          *)
(***************************************************************************)
None == [t |-> "none"]
Str(s) == [t |-> "str", s |-> s]
Num(n) == [t |-> "num", n |-> n]
List(items) == [t |-> "list", items |-> items]

Rep(c, n) == [i \in 1..n |-> c]

\* bool(v): None, "", 0 and [] are falsy.
Truthy(v) ==
    CASE v.t = "none" -> FALSE
      [] v.t = "str"  -> Len(v.s) > 0
      [] v.t = "num"  -> v.n # 0
      [] v.t = "list" -> Len(v.items) > 0

\* Whether len(v) is defined; len() of a number or None raises TypeError.
HasLen(v) == v.t \in {"str", "list"}

PyLen(v) ==
    CASE v.t = "str"  -> Len(v.s)
      [] v.t = "list" -> Len(v.items)

\* str(v) as an f-string renders it, for the values the model draws.
RECURSIVE ReprItems(_)
ReprItems(items) ==
    IF items = <<>> THEN <<>>
    ELSE <<"'", Head(items), "'">>
         \o (IF Len(items) > 1 THEN <<",", " ">> ELSE <<>>)
         \o ReprItems(Tail(items))

Format(v) ==
    CASE v.t = "str"  -> v.s
      [] v.t = "none" -> <<"N", "o", "n", "e">>
      [] v.t = "num"  -> <<"5">>
      [] v.t = "list" -> <<"[">> \o ReprItems(v.items) \o <<"]">>

(***************************************************************************)
(* str.strip() and str.replace(pat, "").                                   *)
(***************************************************************************)
\* The characters str.strip() removes: those for which str.isspace() holds.
\* A character that has no escape in a string is written by its code point,
\* "u000b" for U+000B.
Whitespace ==
    {"\t", "\n", "u000b", "\f", "\r", "u001c", "u001d", "u001e", "u001f", " ",
     "u0085", "u00a0", "u1680", "u2000", "u2001", "u2002", "u2003", "u2004",
     "u2005", "u2006", "u2007", "u2008", "u2009", "u200a", "u2028", "u2029",
     "u202f", "u205f", "u3000"}

Min(S) == CHOOSE m \in S : \A x \in S : m <= x

\* s without its leading and trailing characters of `chars`.
StripOf(s, chars) ==
    LET solid == {i \in 1..Len(s) : s[i] \notin chars}
        first == CHOOSE i \in solid : \A j \in 1..(i - 1) : s[j] \in chars
        last == CHOOSE i \in solid : \A j \in (i + 1)..Len(s) : s[j] \in chars
    IN  IF solid = {} THEN <<>> ELSE SubSeq(s, first, last)

Strip(s) == StripOf(s, Whitespace)

MatchesAt(s, pat, i) == \A j \in 1..Len(pat) : s[i + j - 1] = pat[j]

\* Leftmost, non-overlapping occurrences of pat removed, from index `from` on.
RECURSIVE RemoveFrom(_, _, _)
RemoveFrom(s, pat, from) ==
    LET hits == {i \in from..(Len(s) - Len(pat) + 1) : MatchesAt(s, pat, i)}
    IN  IF hits = {} THEN SubSeq(s, from, Len(s))
        ELSE SubSeq(s, from, Min(hits) - 1)
             \o RemoveFrom(s, pat, Min(hits) + Len(pat))

Remove(s, pat) == RemoveFrom(s, pat, 1)

Fence == <<"bt", "bt", "bt">>
FenceJson == Fence \o <<"j", "s", "o", "n">>

(***************************************************************************)
(* call_ai_model.  A service response is [kind, text]: the transport       *)
(* raised, the result has no candidates, the first candidate's             *)
(* finishReason is SAFETY, the candidate has no content (KeyError), or the *)
(* candidate carries `text`.  The result is the returned value and the     *)
(* levels logged.                                                          *)
(***************************************************************************)
ResponseKinds == {"transport_error", "no_candidates", "safety", "no_content", "ok"}

Failure(kind) == [kind |-> kind, text |-> <<>>]
Ok(s) == [kind |-> "ok", text |-> s]

\* Further answers that end in the handler of line 173: urlopen raises
\* socket.timeout, or the body of the response is not JSON.
ClientResponseKinds == ResponseKinds \cup {"timeout", "not_json"}

call_ai_model(resp, skip_json_parse) ==
    CASE resp.kind \in {"transport_error", "timeout", "not_json", "no_content"} ->
            [value |-> None, logs |-> <<"ERROR">>]
      [] resp.kind \in {"no_candidates", "safety"} ->
            [value |-> None, logs |-> <<>>]
      [] resp.kind = "ok" ->
            LET text_response == Strip(resp.text)
            IN  [value |-> Str(IF skip_json_parse THEN text_response
                               ELSE Remove(Remove(text_response, FenceJson), Fence)),
                 logs |-> <<>>]

\* One invocation of call_ai_model, given the answers the service would give
\* to successive requests: the value returned, the levels logged, the number
\* of requests sent (urlopen, line 169) and whether an exception left it.
\* Mutant: a failed request is sent once more.
ai_client_retrying(answers, skip_json_parse) ==
    LET first == call_ai_model(answers[1], skip_json_parse)
        second == call_ai_model(answers[2], skip_json_parse)
    IN  IF first.value = None
        THEN [value |-> second.value, logs |-> first.logs \o second.logs,
              requests |-> 2, raises |-> FALSE]
        ELSE [value |-> first.value, logs |-> first.logs,
              requests |-> 1, raises |-> FALSE]

ai_client(answers, skip_json_parse) ==
    LET r == call_ai_model(answers[1], skip_json_parse)
    IN  [value |-> r.value, logs |-> r.logs, requests |-> 1, raises |-> FALSE]

(***************************************************************************)
(* _truncate_or_summarize(text), given the response the AI service would   *)
(* give to the summarization request.  `calls` is the responses consumed;  *)
(* `raises` tells that len(text) raised TypeError.                         *)
(***************************************************************************)
Ellipsis == Rep(".", EllipsisLen)

PrefixOf(v, n) ==
    IF v.t = "str" THEN SubSeq(v.s, 1, IF Len(v.s) < n THEN Len(v.s) ELSE n)
    ELSE <<>>

\* Mutant: the slice forgets the room for the ellipsis.
HardTruncateNoRoom(v) == Str(PrefixOf(v, TWITTER_CHAR_LIMIT) \o Ellipsis)

HardTruncate(v) == Str(PrefixOf(v, TWITTER_CHAR_LIMIT - EllipsisLen) \o Ellipsis)

EnforceRaises(calls_, logs_) ==
    [raises |-> TRUE, value |-> None, calls |-> calls_, logs |-> logs_]

Enforced(value_, calls_, logs_) ==
    [raises |-> FALSE, value |-> value_, calls |-> calls_, logs |-> logs_]

\* Lines 178-181, for a text over the limit.  Slicing a list and adding
\* "..." to it raises TypeError.
summarize_or_cut(v, resp) ==
    LET r == call_ai_model(resp, TRUE)
        summarized_text == r.value
    IN  IF ~Truthy(summarized_text) \/ PyLen(summarized_text) > TWITTER_CHAR_LIMIT
        THEN (IF v.t = "str" THEN Enforced(HardTruncate(v), <<resp>>, r.logs)
              ELSE EnforceRaises(<<resp>>, r.logs))
        ELSE Enforced(summarized_text, <<resp>>, r.logs)

\* Mutant: the summary's length is not checked.
truncate_or_summarize_unchecked(v, resp) ==
    IF ~HasLen(v) THEN EnforceRaises(<<>>, <<>>)
    ELSE IF PyLen(v) <= TWITTER_CHAR_LIMIT THEN Enforced(v, <<>>, <<>>)
    ELSE LET r == call_ai_model(resp, TRUE)
         IN  IF ~Truthy(r.value)
             THEN (IF v.t = "str" THEN Enforced(HardTruncate(v), <<resp>>, r.logs)
                   ELSE EnforceRaises(<<resp>>, r.logs))
             ELSE Enforced(r.value, <<resp>>, r.logs)

\* Mutant: `<` for `<=`, a text of exactly the limit is sent to the AI.
truncate_or_summarize_strict(v, resp) ==
    IF ~HasLen(v) THEN EnforceRaises(<<>>, <<>>)
    ELSE IF PyLen(v) < TWITTER_CHAR_LIMIT THEN Enforced(v, <<>>, <<>>)
    ELSE summarize_or_cut(v, resp)

truncate_or_summarize(v, resp) ==
    IF ~HasLen(v) THEN EnforceRaises(<<>>, <<>>)
    ELSE IF PyLen(v) <= TWITTER_CHAR_LIMIT THEN Enforced(v, <<>>, <<>>)
    ELSE summarize_or_cut(v, resp)

(***************************************************************************)
(* JSON.  The documents the AI service may send are a finite catalogue;    *)
(* JsonDumps writes one as the service would send it, and JsonLoads        *)
(* (json.loads) recognises the catalogue's documents, surrounding          *)
(* whitespace allowed, and raises JSONDecodeError on any other text.       *)
(***************************************************************************)
\* n characters: "A" up to the hard-truncation point, "B" after it.
Marked(n) == [i \in 1..n |-> IF i <= TWITTER_CHAR_LIMIT - EllipsisLen THEN "A" ELSE "B"]

Absent == [t |-> "absent"]

JsonObject(tweet_text, analysis) ==
    [j |-> "object", tweet_text |-> tweet_text, analysis |-> analysis]
JsonArray == [j |-> "array"]

Quote == "\""

JsonValue(v) ==
    CASE v.t = "str"  -> <<Quote>> \o v.s \o <<Quote>>
      [] v.t = "none" -> <<"n", "u", "l", "l">>
      [] v.t = "num"  -> <<"5">>
      [] v.t = "list" -> <<"[", Quote>> \o v.items \o <<Quote, "]">>

JsonMember(key, v) == <<Quote>> \o key \o <<Quote, ":", " ">> \o JsonValue(v)

KeyTweetText == <<"t", "w", "e", "e", "t", "_", "t", "e", "x", "t">>
KeyAnalysis == <<"a", "n", "a", "l", "y", "s", "i", "s">>

JsonDumps(d) ==
    IF d.j = "array" THEN <<"[", "1", "]">>
    ELSE <<"{">>
         \o (IF d.analysis = Absent THEN <<>>
             ELSE JsonMember(KeyAnalysis, d.analysis)
                  \o (IF d.tweet_text = Absent THEN <<>> ELSE <<",", " ">>))
         \o (IF d.tweet_text = Absent THEN <<>>
             ELSE JsonMember(KeyTweetText, d.tweet_text))
         \o <<"}">>

Hello == <<"H", "e", "l", "l", "o">>
Why == <<"W", "h", "y">>

JsonDocs ==
    {JsonArray, JsonObject(Str(Hello), Str(Why))}
    \cup {JsonObject(v, Absent) :
            v \in {Absent, None, Str(<<>>), Str(Hello), Num(5), List(<<"a">>),
                   Str(Rep("A", TWITTER_CHAR_LIMIT)),
                   Str(Marked(TWITTER_CHAR_LIMIT + 1)),
                   Str(Rep("A", TWITTER_CHAR_LIMIT + MaxExcess))}}

JsonTable == {[doc |-> d, chars |-> JsonDumps(d)] : d \in JsonDocs}

\* The whitespace json.loads skips before and after a document: space, \t,
\* \n and \r only.  Any other character there is a JSONDecodeError.
JsonWhitespace == {" ", "\t", "\n", "\r"}

JsonLoads(s) ==
    LET body == StripOf(s, JsonWhitespace)
        rows == {r \in JsonTable : r.chars = body}
    IN  IF rows = {} THEN [ok |-> FALSE, doc |-> JsonArray]
        ELSE [ok |-> TRUE, doc |-> (CHOOSE r \in rows : TRUE).doc]

\* dict.get(key): the member's value, None when the key is absent.
Get(v) == IF v = Absent THEN None ELSE v

\* json.loads(response_json).get('tweet_text'): the parse raises
\* JSONDecodeError on a text that is not JSON, and .get raises AttributeError
\* on a document that is not an object.
ParseTweet(response_json) ==
    LET p == JsonLoads(response_json)
    IN  IF ~p.ok THEN [error |-> "JSONDecodeError", text |-> None, analysis |-> None]
        ELSE IF p.doc.j # "object"
        THEN [error |-> "AttributeError", text |-> None, analysis |-> None]
        ELSE [error |-> "none", text |-> Get(p.doc.tweet_text),
              analysis |-> Get(p.doc.analysis)]

(***************************************************************************)
(* The Action Selector (run_action_cycle, lines 114-118).  `draw` is       *)
(* random.random() in hundredths.                                          *)
(***************************************************************************)
ReplyThreshold == 40

\* self.config.get("action_mode", "strategic_mix")
Mode(cfg) == IF cfg.action_mode = "absent" THEN "strategic_mix" ELSE cfg.action_mode

\* Mutant: reply_only falls through to the default.
select_action_type_no_reply_only(mode, draw) ==
    IF mode = "strategic_mix"
    THEN (IF draw < ReplyThreshold THEN "reply" ELSE "post")
    ELSE "post"

select_action_type(mode, draw) ==
    IF mode = "strategic_mix"
    THEN (IF draw < ReplyThreshold THEN "reply" ELSE "post")
    ELSE IF mode = "reply_only" THEN "reply"
    ELSE "post"

(***************************************************************************)
(* _get_generation_function: the strategy of a post run, "none" when the   *)
(* source map has no entry for the mode.                                   *)
(***************************************************************************)
\* Mutant: auto_niche is not looked at.
get_generation_function_by_mode_only(cfg, mode) ==
    CASE mode \in {"strategic_mix", "post_only_controversy"} -> "trends"
      [] mode = "post_only_news" -> "news"
      [] mode = "post_only_word" -> "word"
      [] OTHER -> "none"

get_generation_function(cfg, mode) ==
    IF cfg.auto_niche THEN "trends"
    ELSE CASE mode \in {"strategic_mix", "post_only_controversy"} -> "trends"
           [] mode = "post_only_news" -> "news"
           [] mode = "post_only_word" -> "word"
           [] OTHER -> "none"

(***************************************************************************)
(* The content strategies.  Each result is what the strategy did: whether  *)
(* it raised to its caller, the content package it returned (None for      *)
(* nothing), the AI responses it consumed and the levels it logged.        *)
(***************************************************************************)
Package(text_, query_) == [t |-> "package", text |-> text_, query |-> query_]

Nothing(calls_, logs_) ==
    [raises |-> FALSE, package |-> None, calls |-> calls_, logs |-> logs_]

Returns(package_, calls_, logs_) ==
    [raises |-> FALSE, package |-> package_, calls |-> calls_, logs |-> logs_]

Raises(calls_, logs_) ==
    [raises |-> TRUE, package |-> None, calls |-> calls_, logs |-> logs_]

\* _analyze_and_generate_from_global_trends.  listing: "timeout" (no trend
\* element appeared, or the surface raised), "empty" (no element has text),
\* "trends".
trends_after_wait(listing, resp) ==
    IF listing = "empty" THEN Nothing(<<>>, <<>>)
    ELSE LET r == call_ai_model(resp, FALSE)
         IN  IF ~Truthy(r.value) THEN Nothing(<<resp>>, r.logs)
             ELSE LET p == ParseTweet(r.value.s)
                  IN  IF p.error # "none"
                      THEN Nothing(<<resp>>, r.logs \o <<"ERROR">>)
                      ELSE Returns(Package(p.text,
                                           IF Truthy(p.analysis) THEN p.analysis
                                           ELSE p.text),
                                   <<resp>>, r.logs)

\* Mutant: the wait for the listing is outside the try.
analyze_and_generate_from_global_trends_unguarded(listing, resp) ==
    IF listing = "timeout" THEN Raises(<<>>, <<>>)
    ELSE trends_after_wait(listing, resp)

analyze_and_generate_from_global_trends(listing, resp) ==
    IF listing = "timeout" THEN Nothing(<<>>, <<"ERROR">>)
    ELSE trends_after_wait(listing, resp)

\* _generate_from_news_article.  news: "no_key" (NEWSAPI_KEY unset),
\* "http_error" (urlopen raised), "bad_status" (status is not "ok"),
\* "no_articles", "no_title" (the chosen article has no title), "article".
Headline == <<"N", "A", "S", "A">>

generate_from_news_article(news, resp) ==
    IF news \in {"no_key", "bad_status", "no_articles", "no_title"}
    THEN Nothing(<<>>, <<>>)
    ELSE IF news = "http_error" THEN Nothing(<<>>, <<"ERROR">>)
    ELSE LET r == call_ai_model(resp, FALSE)
         IN  IF ~Truthy(r.value) THEN Nothing(<<resp>>, r.logs)
             ELSE LET p == ParseTweet(r.value.s)
                  IN  IF p.error # "none"
                      THEN Nothing(<<resp>>, r.logs \o <<"ERROR">>)
                      ELSE Returns(Package(p.text, Str(Headline)), <<resp>>, r.logs)

\* _generate_from_word_file.  word_file: "unset" (no word_file_path),
\* "missing" (no file at the path), "unreadable" (docx.Document raises),
\* "present".  text[:100] raises TypeError, inside the try, when the parsed
\* tweet_text is None or a number.
QueryLen == 100

Sliceable(v) == v.t \in {"str", "list"}

Slice(v, n) ==
    IF v.t = "str" THEN Str(SubSeq(v.s, 1, IF Len(v.s) < n THEN Len(v.s) ELSE n))
    ELSE List(SubSeq(v.items, 1, IF Len(v.items) < n THEN Len(v.items) ELSE n))

\* Mutant: the AI is asked before the path is looked at.
generate_from_word_file_asks_first(word_file, docx_available, resp) ==
    Nothing(<<resp>>, call_ai_model(resp, FALSE).logs)

generate_from_word_file(word_file, docx_available, resp) ==
    IF word_file \in {"unset", "missing"} THEN Nothing(<<>>, <<>>)
    ELSE IF ~docx_available THEN Nothing(<<>>, <<>>)
    ELSE IF word_file = "unreadable" THEN Nothing(<<>>, <<"ERROR">>)
    ELSE LET r == call_ai_model(resp, FALSE)
         IN  IF ~Truthy(r.value) THEN Nothing(<<resp>>, r.logs)
             ELSE LET p == ParseTweet(r.value.s)
                  IN  IF p.error # "none" \/ ~Sliceable(p.text)
                      THEN Nothing(<<resp>>, r.logs \o <<"ERROR">>)
                      ELSE Returns(Package(p.text, Slice(p.text, QueryLen)),
                                   <<resp>>, r.logs)

(***************************************************************************)
(* _create_master_prompt: the history part of the prompt is the published  *)
(* texts of tweet_history joined by newlines, or the marker when the       *)
(* history is empty.  No method of the agent writes to tweet_history:      *)
(* _post_tweet_in_browser and _reply_on_twitter leave it as it is.         *)
(***************************************************************************)
NoRecentActivity ==
    <<"N", "o", " ", "r", "e", "c", "e", "n", "t", " ", "a", "c", "t", "i", "v",
      "i", "t", "y", ".">>

RECURSIVE JoinLines(_)
JoinLines(items) ==
    IF items = <<>> THEN <<>>
    ELSE IF Len(items) = 1 THEN Format(items[1])
    ELSE Format(items[1]) \o <<"\n">> \o JoinLines(Tail(items))

create_master_prompt(history, is_reply) ==
    [history_context |-> IF history # <<>> THEN JoinLines(history)
                         ELSE NoRecentActivity,
     is_reply |-> is_reply]

\* Mutant: a text that was sent is appended to the history.
history_after_dispatch_recording(history, sent_text, outcome) ==
    IF outcome = "sent" THEN Append(history, sent_text) ELSE history

history_after_dispatch(history, sent_text, outcome) == history

(***************************************************************************)
(* _find_tweet_to_engage_with.  An article of the result page: whether its *)
(* text contains "promoted", the author, text and permalink elements it    *)
(* holds (Absent: find_element raises NoSuchElementException), and whether *)
(* reading it raises another surface error (a stale element).  `sample`    *)
(* is random.sample(articles, min(len(articles), 10)).                     *)
(***************************************************************************)
SampleLimit == 10

MaxArticles == 3

Article(id, promoted_, author_, text_, url_, stale_) ==
    [id |-> id, promoted |-> promoted_, stale |-> stale_,
     author |-> IF author_ THEN Str(<<"u", id>>) ELSE Absent,
     text |-> IF text_ THEN Str(<<"t", id>>) ELSE Absent,
     url |-> IF url_ THEN Str(<<"/", "s", "t", "a", "t", "u", "s", "/", id>>) ELSE Absent]

Articles ==
    {Article("1", FALSE, TRUE, TRUE, TRUE, FALSE),
     Article("2", FALSE, TRUE, TRUE, TRUE, FALSE),
     Article("3", TRUE, TRUE, TRUE, TRUE, FALSE),
     Article("4", FALSE, FALSE, TRUE, TRUE, FALSE),
     Article("5", FALSE, TRUE, FALSE, TRUE, FALSE),
     Article("6", FALSE, TRUE, TRUE, FALSE, FALSE),
     Article("7", FALSE, TRUE, TRUE, TRUE, TRUE)}

Target(a) == [t |-> "target", author |-> a.author, text |-> a.text, url |-> a.url]

Found(target_) == [target |-> target_, logs |-> <<>>]
NotFound(logs_) == [target |-> None, logs |-> logs_]

Extractable(a) == a.author # Absent /\ a.text # Absent /\ a.url # Absent

\* Mutant: the promoted check is dropped.
RECURSIVE first_suitable_any(_)
first_suitable_any(sample) ==
    IF sample = <<>> THEN NotFound(<<>>)
    ELSE LET a == Head(sample)
         IN  IF a.stale THEN NotFound(<<"ERROR">>)
             ELSE IF ~Extractable(a) THEN first_suitable_any(Tail(sample))
             ELSE Found(Target(a))

RECURSIVE first_suitable(_)
first_suitable(sample) ==
    IF sample = <<>> THEN NotFound(<<>>)
    ELSE LET a == Head(sample)
         IN  IF a.stale THEN NotFound(<<"ERROR">>)
             ELSE IF a.promoted THEN first_suitable(Tail(sample))
             ELSE IF ~Extractable(a) THEN first_suitable(Tail(sample))
             ELSE Found(Target(a))

\* page: whether an article appeared within the wait (else TimeoutException)
\* and the set of visible articles.
find_tweet_to_engage_with(page, sample) ==
    IF ~page.loaded THEN NotFound(<<"ERROR">>)
    ELSE first_suitable(sample)

Smaller(a, b) == IF a < b THEN a ELSE b

Samples(page) ==
    LET k == Smaller(Cardinality(page.articles), SampleLimit)
    IN  {q \in [1..k -> page.articles] : \A i, j \in 1..k : i # j => q[i] # q[j]}

Pages ==
    {[loaded |-> FALSE, articles |-> {}]}
    \cup {[loaded |-> TRUE, articles |-> P] :
            P \in {Q \in SUBSET Articles :
                     Cardinality(Q) >= 1 /\ Cardinality(Q) <= MaxArticles}}

(***************************************************************************)
(* The texts and service responses the specifications draw.                *)
(***************************************************************************)
ShortLengths == {0, 1, 2, TWITTER_CHAR_LIMIT - 1, TWITTER_CHAR_LIMIT}
LongLengths == (TWITTER_CHAR_LIMIT + 1)..(TWITTER_CHAR_LIMIT + MaxExcess)

EnforceTexts ==
    {Marked(n) : n \in ShortLengths \cup LongLengths}
    \cup {Rep("A", n) : n \in ShortLengths \cup LongLengths}

\* What the service may answer to the summarization request.
SummaryResponses ==
    {Failure(k) : k \in ResponseKinds \ {"ok"}}
    \cup {Ok(<<>>), Ok(<<" ", "\n">>), Ok(<<"\r", "\n">>), Ok(<<"S", "u", "m">>),
          Ok(<<"\r">> \o Rep("S", TWITTER_CHAR_LIMIT) \o <<"u00a0">>),
          Ok(Rep("S", TWITTER_CHAR_LIMIT)),
          Ok(Rep("S", TWITTER_CHAR_LIMIT + 1)),
          Ok(<<" ">> \o Rep("S", TWITTER_CHAR_LIMIT) \o <<"\n">>),
          Ok(Fence \o <<"S">> \o Fence)}

(***************************************************************************)
(* The state after construction (__init__) with nothing run yet.           *)
(***************************************************************************)
NoSource == [strategy |-> "none", input |-> "none", docx |-> TRUE]
Source(strategy_, input_, docx_) ==
    [strategy |-> strategy_, input |-> input_, docx |-> docx_]

NoSearch == [page |-> [loaded |-> FALSE, articles |-> {}], sample |-> <<>>]

NoInvocation ==
    [answers |-> <<>>, skip_json_parse |-> FALSE, requests |-> 0, value |-> None,
     raises |-> FALSE]

NoConfig ==
    [action_mode |-> "absent", auto_niche |-> FALSE, attach_image |-> FALSE,
     required_text |-> Absent, word_file_path |-> "unset"]

Blank(start, cfg, d) ==
    /\ pc = start
    /\ config = cfg
    /\ driver = "none"
    /\ quits = 0
    /\ action_type = "none"
    /\ strategies = <<>>
    /\ draft = d
    /\ enforced = None
    /\ text = None
    /\ query = None
    /\ target = None
    /\ image_path = "none"
    /\ tempFile = FALSE
    /\ removals = 0
    /\ dispatches = <<>>
    /\ aiCalls = <<>>
    /\ logs = <<>>
    /\ raised = "none"
    /\ tweet_history = <<>>
    /\ trace = <<>>
    /\ source = NoSource
    /\ login = "none"
    /\ lookups = <<>>
    /\ ai = NoInvocation
    /\ prompts = <<>>

(***************************************************************************)
(* SpecEnforce: _truncate_or_summarize applied once to a drawn text, with  *)
(* a drawn answer of the AI service.                                       *)
(***************************************************************************)
InitEnforce ==
    \E t \in EnforceTexts :
        Blank("enforce_call", NoConfig, Str(t)) /\ search = NoSearch

EnforceCall ==
    /\ pc = "enforce_call"
    /\ \E resp \in SummaryResponses :
        LET r == truncate_or_summarize(draft, resp)
        IN  /\ enforced' = r.value
            /\ aiCalls' = aiCalls \o r.calls
            /\ logs' = logs \o r.logs
            /\ raised' = IF r.raises THEN "TypeError" ELSE "none"
    /\ pc' = "enforce_return"
    /\ UNCHANGED <<login, config, driver, quits, action_type, strategies, draft, text,
                   query, target, image_path, tempFile, removals, dispatches,
                   tweet_history, trace,
                   source, lookups, ai, prompts, search>>

NextEnforce == EnforceCall

SpecEnforce == InitEnforce /\ [][NextEnforce]_vars

(***************************************************************************)
(* SpecDiscover: _find_tweet_to_engage_with applied once to a drawn result *)
(* page and a drawn sample of it.                                          *)
(***************************************************************************)
InitDiscover ==
    \E page \in Pages : \E sample \in Samples(page) :
        /\ Blank("discover_call", NoConfig, None)
        /\ search = [page |-> page, sample |-> sample]

DiscoverCall ==
    /\ pc = "discover_call"
    /\ LET r == find_tweet_to_engage_with(search.page, search.sample)
       IN  /\ target' = r.target
           /\ logs' = logs \o r.logs
    /\ pc' = "discover_return"
    /\ UNCHANGED <<login, config, driver, quits, action_type, strategies, draft, enforced,
                   text, query, image_path, tempFile, removals, dispatches, aiCalls,
                   raised, tweet_history, trace, source, lookups, ai, prompts, search>>

NextDiscover == DiscoverCall

SpecDiscover == InitDiscover /\ [][NextDiscover]_vars

(***************************************************************************)
(* SpecAi: call_ai_model invoked once, with the answers the service would  *)
(* give to a first and to a second request.                                *)
(***************************************************************************)
ClientAnswers ==
    {Failure(k) : k \in ClientResponseKinds \ {"ok"}}
    \cup {Ok(<<>>), Ok(<<" ", "\n">>), Ok(<<" ">> \o Hello \o <<"\n">>),
          Ok(<<"\r", "u000b">>), Ok(<<"\r">> \o Hello \o <<"\f", "u0085">>),
          Ok(FenceJson \o <<"\n">> \o JsonDumps(JsonObject(Str(Hello), Absent))
             \o <<"\n">> \o Fence)}

InitAi ==
    \E first \in ClientAnswers, second \in ClientAnswers, skip \in BOOLEAN :
        /\ pc = "ai_call"
        /\ config = NoConfig
        /\ driver = "none"
        /\ quits = 0
        /\ action_type = "none"
        /\ strategies = <<>>
        /\ draft = None
        /\ enforced = None
        /\ text = None
        /\ query = None
        /\ target = None
        /\ image_path = "none"
        /\ tempFile = FALSE
        /\ removals = 0
        /\ dispatches = <<>>
        /\ aiCalls = <<>>
        /\ logs = <<>>
        /\ raised = "none"
        /\ tweet_history = <<>>
        /\ trace = <<>>
        /\ source = NoSource
        /\ login = "none"
        /\ lookups = <<>>
        /\ search = NoSearch
        /\ prompts = <<>>
        /\ ai = [answers |-> <<first, second>>, skip_json_parse |-> skip,
                 requests |-> 0, value |-> None, raises |-> FALSE]

AiCall ==
    /\ pc = "ai_call"
    /\ LET r == ai_client(ai.answers, ai.skip_json_parse)
       IN  /\ ai' = [ai EXCEPT !.requests = r.requests, !.value = r.value,
                                !.raises = r.raises]
           /\ aiCalls' = SubSeq(ai.answers, 1, r.requests)
           /\ logs' = logs \o r.logs
    /\ pc' = "ai_return"
    /\ UNCHANGED <<login, config, driver, quits, action_type, strategies, draft,
                   enforced, text, query, target, image_path, tempFile, removals,
                   dispatches, raised, tweet_history, trace, source, lookups,
                   prompts, search>>

NextAi == AiCall

SpecAi == InitAi /\ [][NextAi]_vars

(***************************************************************************)
(* Spec: one run of run_action_cycle, for every configuration.             *)
(***************************************************************************)
ActionModes ==
    {"absent", "strategic_mix", "reply_only", "post_only_controversy",
     "post_only_news", "post_only_word", "unrecognized"}

Bot == <<"B", "o", "t">>

Configs ==
    [action_mode : ActionModes, auto_niche : BOOLEAN, attach_image : BOOLEAN,
     required_text : {Absent, Str(<<>>), Str(Bot)},
     word_file_path : {"unset", "set"}]

\* random.random(), in hundredths.
Draws == {0, ReplyThreshold - 1, ReplyThreshold, 99}

\* What the service may answer to a generation request.
GenerationResponses ==
    {Failure(k) : k \in ResponseKinds \ {"ok"}}
    \cup {Ok(<<>>), Ok(<<"S", "o", "r", "r", "y">>)}
    \cup {Ok(JsonDumps(d)) : d \in JsonDocs}
    \cup {Ok(<<"\r">> \o JsonDumps(JsonObject(Str(Hello), Absent)) \o <<"u00a0">>),
          Ok(FenceJson \o <<"u00a0">> \o JsonDumps(JsonObject(Str(Hello), Absent))
             \o Fence),
          Ok(FenceJson \o <<"\r", "\t">> \o JsonDumps(JsonObject(Str(Hello), Absent))
             \o <<" ">> \o Fence)}
    \cup {Ok(FenceJson \o <<"\n">> \o JsonDumps(JsonObject(Str(Hello), Absent))
             \o <<"\n">> \o Fence)}

\* What it may answer to the summarization request of a run: any summary
\* answer, or the very document it gave to the generation request.
RunSummaryResponses ==
    SummaryResponses
    \cup {Ok(JsonDumps(JsonObject(Str(Rep("A", TWITTER_CHAR_LIMIT + MaxExcess)), Absent)))}

Init == \E cfg \in Configs : Blank("setup", cfg, None) /\ search = NoSearch

Log(levels) == logs' = logs \o levels
Step(name) == trace' = Append(trace, name)

\* run_action_cycle, line 110: the run returns when _setup_driver is false.
\* Mutant: the result of _setup_driver is not looked at.
after_setup_unchecked(started) == "login"

after_setup(started) == IF started THEN "login" ELSE "done"

\* _setup_driver: webdriver.Edge starts or raises.
SetupDriver ==
    /\ pc = "setup"
    /\ \E started \in BOOLEAN :
        /\ driver' = IF started THEN "running" ELSE "none"
        /\ Log(IF started THEN <<>> ELSE <<"ERROR">>)
        /\ pc' = after_setup(started)
    /\ UNCHANGED <<login, config, quits, action_type, strategies, draft, enforced, text,
                   query, target, image_path, tempFile, removals, dispatches,
                   aiCalls, raised, tweet_history, trace,
                   source, lookups, ai, prompts, search>>

\* _login_to_twitter: the home feed loads, or a step raises; the handler's
\* save_screenshot is outside any try and may raise in its turn.
LoginToTwitter ==
    /\ pc = "login"
    /\ \E outcome \in {"ok", "failed", "failed_screenshot_raises"} :
        CASE outcome = "ok" ->
                pc' = "select" /\ login' = "ok" /\ UNCHANGED <<logs, raised>>
          [] outcome = "failed" ->
                pc' = "shutdown" /\ login' = "failed" /\ Log(<<"ERROR">>)
                /\ UNCHANGED raised
          [] outcome = "failed_screenshot_raises" ->
                pc' = "done" /\ login' = "failed" /\ Log(<<"ERROR">>)
                /\ raised' = "WebDriverException"
    /\ UNCHANGED <<config, driver, quits, action_type, strategies, draft, enforced,
                   text, query, target, image_path, tempFile, removals, dispatches,
                   aiCalls, tweet_history, trace,
                   source, lookups, ai, prompts, search>>

\* run_action_cycle, lines 113-123: the Action Selector.
SelectAction ==
    /\ pc = "select"
    /\ \E draw \in Draws :
        /\ action_type' = select_action_type(Mode(config), draw)
        /\ pc' = IF action_type' = "reply" THEN "find_target" ELSE "generate"
    /\ Step("SELECT_ACTION")
    /\ UNCHANGED <<login, config, driver, quits, strategies, draft, enforced, text, query,
                   target, image_path, tempFile, removals, dispatches, aiCalls,
                   logs, raised, tweet_history,
                   source, lookups, ai, prompts, search>>

\* perform_post_action, lines 128-134, after the strategy returned `res`:
\* where the run goes next.
\* Mutant: a strategy that returned nothing is run again.
post_after_strategy_retry(res) ==
    IF res.raises THEN "done"
    ELSE IF res.package = None THEN "generate"
    ELSE IF Truthy(res.package.text) THEN "enforce"
    ELSE "shutdown"

post_after_strategy(res) ==
    IF res.raises THEN "done"
    ELSE IF res.package = None THEN "shutdown"
    ELSE IF Truthy(res.package.text) THEN "enforce"
    ELSE "shutdown"

PostStrategy(name, src, res) ==
    /\ strategies' = Append(strategies, name)
    /\ source' = src
    /\ aiCalls' = aiCalls \o res.calls
    /\ pc' = post_after_strategy(res)
    /\ raised' = IF res.raises THEN "Exception" ELSE raised
    /\ Log(res.logs \o (IF ~res.raises /\ res.package = None THEN <<"WARN">> ELSE <<>>))
    /\ IF ~res.raises /\ res.package # None
       THEN /\ text' = res.package.text
            /\ draft' = res.package.text
            /\ query' = res.package.query
       ELSE UNCHANGED <<text, draft, query>>
    /\ prompts' = prompts \o [i \in 1..Len(res.calls) |->
                                create_master_prompt(tweet_history, FALSE)]
    /\ Step("RUN_STRATEGY")
    /\ UNCHANGED <<login, config, driver, quits, action_type, enforced, target, image_path,
                   tempFile, removals, dispatches, tweet_history, lookups, ai, search>>

\* perform_post_action, line 129: the source map has no strategy for the mode.
NoStrategy ==
    /\ pc = "generate"
    /\ get_generation_function(config, Mode(config)) = "none"
    /\ pc' = "shutdown"
    /\ UNCHANGED <<login, config, driver, quits, action_type, strategies, draft, enforced,
                   text, query, target, image_path, tempFile, removals, dispatches,
                   aiCalls, logs, raised, tweet_history, trace,
                   source, lookups, ai, prompts, search>>

TrendStrategy ==
    /\ pc = "generate"
    /\ get_generation_function(config, Mode(config)) = "trends"
    /\ \E listing \in {"timeout", "empty", "trends"}, resp \in GenerationResponses :
        PostStrategy("trends", Source("trends", listing, TRUE),
                     analyze_and_generate_from_global_trends(listing, resp))

NewsStrategy ==
    /\ pc = "generate"
    /\ get_generation_function(config, Mode(config)) = "news"
    /\ \E news \in {"no_key", "http_error", "bad_status", "no_articles", "no_title",
                    "article"},
          resp \in GenerationResponses :
        PostStrategy("news", Source("news", news, TRUE),
                     generate_from_news_article(news, resp))

\* The file at word_file_path: os.path.exists is false, docx.Document raises,
\* or the document is read.
WordFile(cfg, file) == IF cfg.word_file_path = "unset" THEN "unset" ELSE file

WordStrategy ==
    /\ pc = "generate"
    /\ get_generation_function(config, Mode(config)) = "word"
    /\ \E file \in {"missing", "unreadable", "present"}, docx_available \in BOOLEAN,
          resp \in GenerationResponses :
        PostStrategy("word", Source("word", WordFile(config, file), docx_available),
                     generate_from_word_file(WordFile(config, file), docx_available, resp))

\* perform_reply_action, lines 148-149.
FindTarget ==
    /\ pc = "find_target"
    /\ \E page \in Pages :
         \E sample \in Samples(page) :
            LET r == find_tweet_to_engage_with(page, sample)
            IN  /\ target' = r.target
                /\ Log(r.logs \o (IF r.target = None THEN <<"WARN">> ELSE <<>>))
                /\ pc' = IF r.target = None THEN "shutdown" ELSE "reply_generate"
                /\ source' = Source("reply",
                                    IF r.target = None THEN "no_target" ELSE "target",
                                    TRUE)
    /\ strategies' = Append(strategies, "reply")
    /\ Step("RUN_STRATEGY")
    /\ UNCHANGED <<login, config, driver, quits, action_type, draft, enforced, text, query,
                   image_path, tempFile, removals, dispatches, aiCalls, raised,
                   tweet_history, lookups, ai, prompts, search>>

\* perform_reply_action, lines 151-156 and 161-162: the reply is generated
\* and parsed; JSONDecodeError and AttributeError are caught and logged.
reply_generate(resp) ==
    LET r == call_ai_model(resp, FALSE)
    IN  IF ~Truthy(r.value) THEN Nothing(<<resp>>, r.logs)
        ELSE LET p == ParseTweet(r.value.s)
             IN  IF p.error # "none"
                 THEN Nothing(<<resp>>, r.logs \o <<"ERROR">>)
                 ELSE Returns(Package(p.text, None), <<resp>>, r.logs)

ReplyGenerate ==
    /\ pc = "reply_generate"
    /\ \E resp \in GenerationResponses :
        LET res == reply_generate(resp)
        IN  /\ aiCalls' = aiCalls \o res.calls
            /\ prompts' = Append(prompts, create_master_prompt(tweet_history, TRUE))
            /\ Log(res.logs)
            /\ IF res.package # None
               THEN /\ text' = res.package.text
                    /\ draft' = res.package.text
                    /\ pc' = IF Truthy(res.package.text) THEN "enforce" ELSE "shutdown"
               ELSE pc' = "shutdown" /\ UNCHANGED <<text, draft>>
    /\ UNCHANGED <<login, config, driver, quits, action_type, strategies, enforced, query,
                   target, image_path, tempFile, removals, dispatches, raised,
                   tweet_history, trace,
                   source, lookups, ai, search>>

\* What follows the Length Enforcer: in perform_post_action the image lookup
\* of lines 136-139, in perform_reply_action the trailer of lines 158-159.
\* Mutant: the post path goes to the trailer at once.
after_enforce_trailer_first(action) == "append"

after_enforce(action) == IF action = "post" THEN "attach" ELSE "append"

\* perform_post_action line 135, perform_reply_action line 157.  A TypeError
\* of len() is caught by neither and leaves run_action_cycle.
EnforceLength ==
    /\ pc = "enforce"
    /\ \E resp \in RunSummaryResponses :
        LET r == truncate_or_summarize(draft, resp)
        IN  /\ aiCalls' = aiCalls \o r.calls
            /\ Log(r.logs)
            /\ IF r.raises
               THEN /\ raised' = "TypeError"
                    /\ pc' = "done"
                    /\ UNCHANGED <<enforced, text>>
               ELSE /\ enforced' = r.value
                    /\ text' = r.value
                    /\ pc' = after_enforce(action_type)
                    /\ UNCHANGED raised
    /\ Step("ENFORCE_LENGTH")
    /\ UNCHANGED <<login, config, driver, quits, action_type, strategies, draft, query,
                   target, image_path, tempFile, removals, dispatches, tweet_history,
                   source, lookups, ai, prompts, search>>

\* _get_image_from_newsapi and _download_image.  lookup: "no_key",
\* "http_error" (urlopen raised), "bad_status", "no_articles", "no_image" (no
\* article has urlToImage), "download_failed" (urlretrieve raised),
\* "downloaded".  urlretrieve may raise before or after it opened
\* temp_post_image.jpg for writing: file_left tells that the file it was
\* writing is on disk.  `file` is whether temp_post_image.jpg exists when
\* the lookup returns.
Lookups ==
    {"no_key", "http_error", "bad_status", "no_articles", "no_image",
     "download_failed", "downloaded"}

\* Mutant: the path of the image file is returned although the download
\* failed.
get_image_from_newsapi_path_anyway(lookup, file_left) ==
    CASE lookup = "downloaded" ->
            [image_path |-> "temp", file |-> TRUE, logs |-> <<>>]
      [] lookup = "download_failed" ->
            [image_path |-> "temp", file |-> file_left, logs |-> <<>>]
      [] lookup = "http_error" ->
            [image_path |-> "none", file |-> FALSE, logs |-> <<"ERROR">>]
      [] OTHER -> [image_path |-> "none", file |-> FALSE, logs |-> <<>>]

get_image_from_newsapi(lookup, file_left) ==
    CASE lookup = "downloaded" ->
            [image_path |-> "temp", file |-> TRUE, logs |-> <<>>]
      [] lookup = "download_failed" ->
            [image_path |-> "none", file |-> file_left, logs |-> <<"ERROR">>]
      [] lookup = "http_error" ->
            [image_path |-> "none", file |-> FALSE, logs |-> <<"ERROR">>]
      [] OTHER -> [image_path |-> "none", file |-> FALSE, logs |-> <<>>]

\* perform_post_action, lines 136-139, with attach_image set.
AttachMedia ==
    /\ pc = "attach"
    /\ config.attach_image
    /\ \E lookup \in Lookups, file_left \in BOOLEAN :
        LET r == get_image_from_newsapi(lookup, file_left)
        IN  /\ image_path' = r.image_path
            /\ tempFile' = r.file
            /\ lookups' = Append(lookups, lookup)
            /\ Log(r.logs)
    /\ pc' = "append"
    /\ Step("ATTACH_MEDIA")
    /\ UNCHANGED <<login, config, driver, quits, action_type, strategies, draft, enforced,
                   text, query, target, removals, dispatches, aiCalls, raised,
                   tweet_history,
                   source, ai, prompts, search>>

\* perform_post_action, lines 136-137, with attach_image unset or false.
SkipMedia ==
    /\ pc = "attach"
    /\ ~config.attach_image
    /\ pc' = "append"
    /\ UNCHANGED <<login, config, driver, quits, action_type, strategies, draft, enforced,
                   text, query, target, image_path, tempFile, removals, dispatches,
                   aiCalls, logs, raised, tweet_history, trace,
                   source, lookups, ai, prompts, search>>

\* Lines 141-142 and 158-159: the required trailer.
\* Mutant: the limit is enforced again after the trailer is appended.
append_required_text_truncating(t, required_text) ==
    IF Truthy(required_text)
    THEN LET full == Str(Format(t) \o <<"\n", "\n">> \o Format(required_text))
         IN  IF Len(full.s) <= TWITTER_CHAR_LIMIT THEN full ELSE HardTruncate(full)
    ELSE t

append_required_text(t, required_text) ==
    IF Truthy(required_text)
    THEN Str(Format(t) \o <<"\n", "\n">> \o Format(required_text))
    ELSE t

AppendRequiredText ==
    /\ pc = "append"
    /\ text' = append_required_text(text, Get(config.required_text))
    /\ pc' = "dispatch"
    /\ Step("APPEND_REQUIRED_TEXT")
    /\ UNCHANGED <<login, config, driver, quits, action_type, strategies, draft, enforced,
                   query, target, image_path, tempFile, removals, dispatches, aiCalls,
                   logs, raised, tweet_history,
                   source, lookups, ai, prompts, search>>

Dispatch(kind_, url_, outcome_) ==
    [kind |-> kind_, text |-> text, image |-> image_path, url |-> url_,
     outcome |-> outcome_]

\* _post_tweet_in_browser: the post is sent, or the surface raises and the
\* error is logged.
PostTweetInBrowser ==
    /\ pc = "dispatch"
    /\ action_type = "post"
    /\ \E outcome \in {"sent", "surface_error"} :
        /\ dispatches' = Append(dispatches, Dispatch("post", None, outcome))
        /\ Log(IF outcome = "sent" THEN <<>> ELSE <<"ERROR">>)
        /\ tweet_history' = history_after_dispatch(tweet_history, text, outcome)
    /\ pc' = "cleanup"
    /\ Step("DISPATCH")
    /\ UNCHANGED <<login, config, driver, quits, action_type, strategies, draft, enforced,
                   text, query, target, image_path, tempFile, removals, aiCalls,
                   raised,
                   source, lookups, ai, prompts, search>>

\* _reply_on_twitter.
ReplyOnTwitter ==
    /\ pc = "dispatch"
    /\ action_type = "reply"
    /\ \E outcome \in {"sent", "surface_error"} :
        /\ dispatches' = Append(dispatches, Dispatch("reply", target.url, outcome))
        /\ Log(IF outcome = "sent" THEN <<>> ELSE <<"ERROR">>)
        /\ tweet_history' = history_after_dispatch(tweet_history, text, outcome)
    /\ pc' = "shutdown"
    /\ Step("DISPATCH")
    /\ UNCHANGED <<login, config, driver, quits, action_type, strategies, draft, enforced,
                   text, query, target, image_path, tempFile, removals, aiCalls,
                   raised,
                   source, lookups, ai, prompts, search>>

\* _cleanup_temp_image: os.remove is tried when the path is set and the file
\* exists; its failure is logged and the file stays.
\* Mutant: the file is never removed.
cleanup_temp_image_skipped(path, exists, remove_ok) ==
    [exists |-> exists, removals |-> 0, logs |-> <<>>]

cleanup_temp_image(path, exists, remove_ok) ==
    IF path # "none" /\ exists
    THEN [exists |-> ~remove_ok, removals |-> 1,
          logs |-> IF remove_ok THEN <<>> ELSE <<"WARN">>]
    ELSE [exists |-> exists, removals |-> 0, logs |-> <<>>]

CleanupTempImage ==
    /\ pc = "cleanup"
    /\ \E remove_ok \in BOOLEAN :
        LET r == cleanup_temp_image(image_path, tempFile, remove_ok)
        IN  /\ tempFile' = r.exists
            /\ removals' = removals + r.removals
            /\ Log(r.logs)
    /\ pc' = "shutdown"
    /\ UNCHANGED <<login, config, driver, quits, action_type, strategies, draft, enforced,
                   text, query, target, image_path, dispatches, aiCalls, raised,
                   tweet_history, trace,
                   source, lookups, ai, prompts, search>>

\* _shutdown_browser.
ShutdownBrowser ==
    /\ pc = "shutdown"
    /\ IF driver = "running"
       THEN driver' = "quit" /\ quits' = quits + 1
       ELSE UNCHANGED <<driver, quits>>
    /\ pc' = "done"
    /\ UNCHANGED <<login, config, action_type, strategies, draft, enforced, text, query,
                   target, image_path, tempFile, removals, dispatches, aiCalls, logs,
                   raised, tweet_history, trace,
                   source, lookups, ai, prompts, search>>

Next ==
    \/ SetupDriver
    \/ LoginToTwitter
    \/ SelectAction
    \/ NoStrategy
    \/ TrendStrategy
    \/ NewsStrategy
    \/ WordStrategy
    \/ FindTarget
    \/ ReplyGenerate
    \/ EnforceLength
    \/ AttachMedia
    \/ SkipMedia
    \/ AppendRequiredText
    \/ PostTweetInBrowser
    \/ ReplyOnTwitter
    \/ CleanupTempImage
    \/ ShutdownBrowser

Spec == Init /\ [][Next]_vars

(***************************************************************************)
(* SpecHistory: the Prompt Builder and the two dispatch methods applied    *)
(* to one agent in any order, MaxOps times in all.                         *)
(***************************************************************************)
MaxOps == 3

HistoryTexts == {Str(Hello), Str(Bot)}

InitHistory == Blank("ops", NoConfig, None) /\ search = NoSearch

OpsLeft == Len(trace) < MaxOps

\* _create_master_prompt(task, personality, niche, is_reply).
CreateMasterPrompt ==
    /\ pc = "ops" /\ OpsLeft
    /\ \E is_reply \in BOOLEAN :
        prompts' = Append(prompts, create_master_prompt(tweet_history, is_reply))
    /\ Step("BUILD_PROMPT")
    /\ UNCHANGED <<pc, login, config, driver, quits, action_type, strategies, draft,
                   enforced, text, query, target, image_path, tempFile, removals,
                   dispatches, aiCalls, logs, raised, tweet_history, source,
                   lookups, ai, search>>

\* _post_tweet_in_browser(text) and _reply_on_twitter(url, text).
DispatchText ==
    /\ pc = "ops" /\ OpsLeft
    /\ \E kind \in {"post", "reply"}, t \in HistoryTexts,
          outcome \in {"sent", "surface_error"} :
        /\ dispatches' = Append(dispatches,
                                [kind |-> kind, text |-> t, image |-> "none",
                                 url |-> None, outcome |-> outcome])
        /\ Log(IF outcome = "sent" THEN <<>> ELSE <<"ERROR">>)
        /\ tweet_history' = history_after_dispatch(tweet_history, t, outcome)
    /\ Step("DISPATCH")
    /\ UNCHANGED <<pc, login, config, driver, quits, action_type, strategies, draft,
                   enforced, text, query, target, image_path, tempFile, removals,
                   aiCalls, raised, source, lookups, ai, prompts, search>>

NextHistory == CreateMasterPrompt \/ DispatchText

SpecHistory == InitHistory /\ [][NextHistory]_vars

(***************************************************************************)
(* Claims about the Length Enforcer, checked under SpecEnforce.            *)
(***************************************************************************)
Returned == pc = "enforce_return"

\* What the AI Client handed back to the summarization request.
Summary == call_ai_model(aiCalls[1], TRUE).value

\* C1: whatever the text and whatever the AI service answers, the Length
\* Enforcer returns, without raising, a text of at most 280 characters.
C1_EnforceWithinLimit ==
    Returned =>
        /\ raised = "none"
        /\ enforced.t = "str"
        /\ Len(enforced.s) <= 280

\* C1 witness: a text over the limit whose summary came back over the limit too.
C1_Witness ==
    /\ Returned
    /\ Len(draft.s) > 280
    /\ aiCalls # <<>>
    /\ Summary.t = "str" /\ Len(Summary.s) > 280
    /\ Len(enforced.s) <= 280

\* C2: a text of at most 280 characters is returned unchanged, and the AI
\* Client is not called.
C2_ShortUnchanged ==
    (Returned /\ Len(draft.s) <= 280) =>
        /\ enforced = draft
        /\ aiCalls = <<>>

\* C2 witness: a text of exactly 280 characters came back as it was.
C2_Witness ==
    /\ Returned
    /\ Len(draft.s) = 280
    /\ enforced = draft
    /\ aiCalls = <<>>

\* C3: for a text over 280 characters, when the AI Client returns a failure,
\* an empty text or a text over 280 characters, the result is the first 277
\* characters of the input followed by "...", 280 characters in all.
C3_HardTruncation ==
    (/\ Returned
     /\ Len(draft.s) > 280
     /\ \/ Summary = None
        \/ Summary.s = <<>>
        \/ Len(Summary.s) > 280) =>
        /\ enforced = Str(SubSeq(draft.s, 1, 277) \o <<".", ".", ".">>)
        /\ Len(enforced.s) = 280

\* C3 witness: the service answered with blanks only, which strip to the
\* empty text, and the marked input was cut at its 277th character.
C3_Witness ==
    /\ Returned
    /\ Len(draft.s) > 280
    /\ aiCalls = <<Ok(<<" ", "\n">>)>>
    /\ enforced.s[277] = "A"
    /\ enforced.s[278] = "."
    /\ draft.s[278] = "B"

(***************************************************************************)
(* Claims about one run, checked under Spec, and about the Engagement      *)
(* Target Discovery, checked under SpecDiscover.                           *)
(***************************************************************************)
Selected == action_type # "none"

\* C4: the Action Selector yields "reply" whenever action_mode is reply_only,
\* and "post" whenever action_mode is a value other than strategic_mix and
\* reply_only (unrecognized values too), whatever the draw and the other
\* configuration fields.  (A missing action_mode reads as strategic_mix.)
C4_SelectorByMode ==
    Selected =>
        /\ config.action_mode = "reply_only" => action_type = "reply"
        /\ config.action_mode \in {"post_only_controversy", "post_only_news",
                                   "post_only_word", "unrecognized"}
              => action_type = "post"

\* C4 witness: an unrecognized mode was selected as a post, with the other
\* fields set.
C4_Witness ==
    /\ Selected
    /\ config.action_mode = "unrecognized"
    /\ config.auto_niche /\ config.attach_image
    /\ action_type = "post"

\* C5: a run invokes at most one content strategy and makes at most one
\* dispatch attempt; nothing is tried again after a failure, and the AI is
\* asked at most once for content and at most once for a summary.
C5_OneStrategyOneDispatch ==
    /\ Len(strategies) <= 1
    /\ Len(dispatches) <= 1
    /\ Len(aiCalls) <= 2
    /\ Len(aiCalls) = 2 => (HasLen(draft) /\ PyLen(draft) > 280)
    /\ dispatches # <<>> => Len(strategies) = 1

\* C5 witness: the run ended after its one dispatch attempt failed.
C5_Witness ==
    /\ pc = "done"
    /\ Len(strategies) = 1
    /\ Len(dispatches) = 1
    /\ dispatches[1].outcome = "surface_error"

\* C6: discovery returns nothing or a target that carries author, text and
\* url and comes from an item of the sample that is not promoted.
C6_TargetNeverPromoted ==
    (pc = "discover_return" /\ target # None) =>
        /\ target.author # Absent /\ target.text # Absent /\ target.url # Absent
        /\ \E i \in 1..Len(search.sample) :
              /\ search.sample[i].url = target.url
              /\ ~search.sample[i].promoted
        /\ \A i \in 1..Len(search.sample) :
              search.sample[i].promoted => search.sample[i].url # target.url

\* C6 witness: the sample began with a promoted item and with an item that
\* has no author, and a later item was returned.
C6_Witness ==
    /\ pc = "discover_return"
    /\ Len(search.sample) = 3
    /\ search.sample[1].promoted
    /\ search.sample[2].author = Absent
    /\ target # None
    /\ target.url = search.sample[3].url

SourceUnavailable ==
    \/ source.strategy = "trends" /\ source.input \in {"timeout", "empty"}
    \/ source.strategy = "news"
         /\ source.input \in {"no_key", "http_error", "bad_status", "no_articles"}
    \/ source.strategy = "word"
         /\ (source.input \in {"unset", "missing"} \/ ~source.docx)
    \/ source.strategy = "reply" /\ source.input = "no_target"

\* C7: a strategy whose input source is unavailable returns nothing and
\* raises nothing: the run goes on to its end with no text and no dispatch.
C7_UnavailableSourceReturnsNothing ==
    SourceUnavailable =>
        /\ raised = "none"
        /\ draft = None
        /\ dispatches = <<>>
        /\ pc \in {"shutdown", "done"}

\* C7 witness: the trend listing never appeared, and the run ended in order.
C7_Witness ==
    /\ source.strategy = "trends" /\ source.input = "timeout"
    /\ pc = "done"
    /\ raised = "none"
    /\ quits = 1

\* An AI response was obtained for the generation request and it is not a
\* JSON object with a string tweet_text.
BadShape(resp) ==
    LET r == call_ai_model(resp, FALSE)
    IN  /\ Truthy(r.value)
        /\ LET p == ParseTweet(r.value.s)
           IN  p.error # "none" \/ p.text.t # "str"

\* C8 (the claim as stated; the code violates it): after an AI response of
\* the wrong shape, no dispatch is attempted and no exception leaves
\* run_action_cycle.
C8_BadShapeIsStrategyFailure ==
    (aiCalls # <<>> /\ BadShape(aiCalls[1])) =>
        /\ dispatches = <<>>
        /\ raised = "none"

NoTrailer == ~Truthy(Get(config.required_text))

LongDraft == draft.t = "str" /\ Len(draft.s) > 280

EndsInEllipsis(s) ==
    /\ Len(s) >= 3
    /\ SubSeq(s, Len(s) - 2, Len(s)) = <<".", ".", ".">>

\* C9 (the claim as stated; refuted): with a generated text over 280
\* characters and no required_text, the dispatched text is 280 characters
\* long and ends in "...".
C9_LongTextAlwaysEllipsis ==
    (dispatches # <<>> /\ LongDraft /\ NoTrailer) =>
        /\ Len(dispatches[1].text.s) = 280
        /\ EndsInEllipsis(dispatches[1].text.s)

\* What the AI Client returned to the run's summarization request.
RunSummary == call_ai_model(aiCalls[2], TRUE).value

SummaryUnusable ==
    \/ RunSummary = None
    \/ RunSummary.s = <<>>
    \/ Len(RunSummary.s) > 280

\* C9 (amended): with a generated text over 280 characters and no
\* required_text, when the summarization request fails or yields an empty or
\* over-long text, the dispatched text is 280 characters long and ends in
\* "..."; when it yields a text of 1 to 280 characters, that summary is
\* dispatched.
C9_LongTextEllipsisUnlessSummarized ==
    (dispatches # <<>> /\ LongDraft /\ NoTrailer) =>
        IF SummaryUnusable
        THEN /\ Len(dispatches[1].text.s) = 280
             /\ EndsInEllipsis(dispatches[1].text.s)
        ELSE /\ dispatches[1].text = RunSummary
             /\ Len(dispatches[1].text.s) <= 280

\* C9 witness: the AI gave 300 "A"s, answered the summarization request with
\* the same document, and 277 "A"s and "..." were dispatched.
C9_Witness ==
    /\ dispatches # <<>>
    /\ NoTrailer
    /\ draft = Str(Rep("A", 300))
    /\ aiCalls[2] = aiCalls[1]
    /\ dispatches[1].text = Str(Rep("A", 277) \o <<".", ".", ".">>)

\* C10: every dispatched text is the length-enforced text, followed by a
\* blank line and the required_text when one is configured and non-empty;
\* the trailer is added after the enforcement and is never cut.
C10_TrailerAfterEnforcement ==
    dispatches # <<>> =>
        LET required == config.required_text
        IN  IF required # Absent /\ required.s # <<>>
            THEN /\ dispatches[1].text.s
                      = Format(enforced) \o <<"\n", "\n">> \o required.s
                 /\ SubSeq(dispatches[1].text.s,
                           Len(dispatches[1].text.s) - Len(required.s) + 1,
                           Len(dispatches[1].text.s)) = required.s
            ELSE dispatches[1].text = enforced

\* C10 witness: a reply whose text was cut to 280 characters went out with
\* the trailer whole, 285 characters in all.
C10_Witness ==
    /\ dispatches # <<>>
    /\ dispatches[1].kind = "reply"
    /\ enforced.t = "str"
    /\ Len(enforced.s) = 280
    /\ config.required_text = Str(Bot)
    /\ Len(dispatches[1].text.s) = 285

(***************************************************************************)
(* Claims about the media file of a post run, checked under Spec.          *)
(***************************************************************************)
MediaObtained == image_path = "temp"

\* C11, as stated: in every run in which a media file was obtained, the file
\* has been deleted exactly once, and none remains, when the run ends.
C11_MediaFileGoneAtEnd ==
    pc = "done" /\ MediaObtained => ~tempFile /\ removals = 1

\* C11, as the code has it: the file is obtained before the dispatch attempt
\* and is still there when the attempt is made; after the attempt, whatever
\* its outcome, one removal is tried and never a second; when the run ends the
\* file is gone unless that removal failed, and then the failure is the last
\* thing logged, at WARN.  When no file was obtained nothing is removed: the
\* file a failed download was writing stays on disk.
C11_MediaFileReleasedOnce ==
    /\ removals <= 1
    /\ removals = 1 =>
            /\ Len(dispatches) = 1
            /\ dispatches[1].image = "temp"
            /\ pc \in {"shutdown", "done"}
    /\ pc \in {"dispatch", "cleanup"} /\ MediaObtained => tempFile /\ removals = 0
    /\ ~MediaObtained =>
            /\ removals = 0
            /\ tempFile => lookups = <<"download_failed">>
    /\ pc \in {"shutdown", "done"} /\ MediaObtained =>
            /\ removals = 1
            /\ dispatches[1].outcome \in {"sent", "surface_error"}
            /\ tempFile => logs # <<>> /\ logs[Len(logs)] = "WARN"

\* A run ends whose dispatch failed on the surface after an image had been
\* downloaded, and the image has been removed.
C11_Witness ==
    /\ pc = "done"
    /\ MediaObtained
    /\ Len(dispatches) = 1
    /\ dispatches[1].outcome = "surface_error"
    /\ dispatches[1].image = "temp"
    /\ removals = 1
    /\ ~tempFile

(***************************************************************************)
(* Claims about the order of the orchestrator's steps, checked under Spec. *)
(***************************************************************************)
Before(a, b) ==
    \E i, j \in 1..Len(trace) : i < j /\ trace[i] = a /\ trace[j] = b

\* A post run that reached dispatch with a trailer and image attachment
\* configured.
PostWithTrailerAndMedia ==
    /\ action_type = "post"
    /\ Len(dispatches) = 1
    /\ Truthy(Get(config.required_text))
    /\ config.attach_image

\* C12, as stated: in a post run that reaches dispatch with required_text and
\* attach_image configured, the trailer is appended after length enforcement
\* and before the media lookup, which precedes the dispatch.
C12_TrailerBeforeMedia ==
    PostWithTrailerAndMedia =>
        /\ Before("ENFORCE_LENGTH", "APPEND_REQUIRED_TEXT")
        /\ Before("APPEND_REQUIRED_TEXT", "ATTACH_MEDIA")
        /\ Before("ATTACH_MEDIA", "DISPATCH")

\* C12, as the code has it: the steps of such a run are length enforcement,
\* then the media lookup, then the trailer, then the dispatch; when the
\* lookup is made the text is still the enforced text, without the trailer.
C12_MediaBeforeTrailer ==
    /\ PostWithTrailerAndMedia =>
            trace = <<"SELECT_ACTION", "RUN_STRATEGY", "ENFORCE_LENGTH",
                      "ATTACH_MEDIA", "APPEND_REQUIRED_TEXT", "DISPATCH">>
    /\ pc = "attach" =>
            /\ text = enforced
            /\ \A i \in 1..Len(trace) : trace[i] # "APPEND_REQUIRED_TEXT"

\* A post with the trailer and a downloaded image has been sent.
C12_Witness ==
    /\ pc = "done"
    /\ PostWithTrailerAndMedia
    /\ dispatches[1].outcome = "sent"
    /\ dispatches[1].image = "temp"
    /\ dispatches[1].text = Str(Hello \o <<"\n", "\n">> \o Bot)
    /\ Before("ATTACH_MEDIA", "APPEND_REQUIRED_TEXT")

(***************************************************************************)
(* Claims about the document strategy, checked under Spec.                 *)
(***************************************************************************)
NoDocument == source.strategy = "word" /\ source.input \in {"unset", "missing"}

\* C13: when the document strategy has run with no word_file_path configured,
\* or with a path at which no file exists, it has returned nothing, no AI
\* call has been made and no dispatch is attempted in the run.
C13_NoDocumentNoCallNoDispatch ==
    NoDocument =>
        /\ strategies = <<"word">>
        /\ draft = None /\ text = None
        /\ aiCalls = <<>>
        /\ dispatches = <<>>
        /\ raised = "none"
        /\ pc \in {"shutdown", "done"}

\* The document strategy ran without a configured path and the run is over.
C13_Witness ==
    /\ source.strategy = "word" /\ source.input = "unset"
    /\ config.word_file_path = "unset"
    /\ pc = "done"
    /\ aiCalls = <<>>
    /\ dispatches = <<>>

(***************************************************************************)
(* Claims about the start of a run, checked under Spec.                    *)
(***************************************************************************)
NothingDone ==
    /\ login = "none"
    /\ action_type = "none"
    /\ strategies = <<>>
    /\ aiCalls = <<>>
    /\ dispatches = <<>>
    /\ trace = <<>>

\* C14: when the browser could not be started the run is over and there has
\* been no login, no strategy, no AI call and no dispatch; and whenever an
\* action has been selected, a strategy run, the AI called or a dispatch
\* attempted, the browser had been started and the login had succeeded.
C14_NothingWithoutSurfaceAndLogin ==
    /\ pc # "setup" /\ driver = "none" => pc = "done" /\ NothingDone
    /\ ~NothingDone => driver \in {"running", "quit"}
    /\ action_type # "none" \/ strategies # <<>> \/ aiCalls # <<>> \/ dispatches # <<>>
            => login = "ok" /\ driver \in {"running", "quit"}
    /\ login # "ok" => pc \in {"setup", "login", "shutdown", "done"}

\* The browser could not be started and the run is over.
C14_Witness ==
    /\ pc = "done"
    /\ driver = "none"
    /\ logs = <<"ERROR">>
    /\ NothingDone
    /\ quits = 0

(***************************************************************************)
(* Claims about Engagement Target Discovery, checked under SpecDiscover.   *)
(***************************************************************************)
\* An item of the sample that is not promoted and whose author, text and
\* permalink can all be read.
Suitable(a) == ~a.promoted /\ ~a.stale /\ Extractable(a)

SuitableAt == {i \in 1..Len(search.sample) : Suitable(search.sample[i])}

\* C15: discovery skips every sampled item whose extraction fails, whatever
\* the failure, and returns the first suitable item of the sample; it returns
\* nothing only when the sample (at most 10 items) has no suitable item.
C15_FirstSuitableOfSample ==
    pc = "discover_return" =>
        /\ Len(search.sample) <= SampleLimit
        /\ IF SuitableAt = {} THEN target = None
           ELSE target = Target(search.sample[Min(SuitableAt)])

(***************************************************************************)
(* Claims about the media lookup, checked under Spec.                      *)
(***************************************************************************)
\* C16: an image lookup is made only in a post run whose configuration has
\* attach_image true, and at most once; when it has found no image (no key,
\* provider error or non-success status, no article with an image, failed
\* download) no image path is kept, and the run still makes its dispatch
\* attempt, of the enforced text with its trailer and no media.
C16_LookupOnlyWhenConfigured ==
    /\ Len(lookups) <= 1
    /\ lookups # <<>> => config.attach_image /\ action_type = "post"
    /\ ~config.attach_image => image_path = "none"
    /\ lookups # <<>> /\ lookups[1] # "downloaded" =>
            /\ image_path = "none"
            /\ tempFile => lookups[1] = "download_failed"
            /\ removals = 0
            /\ pc \in {"append", "dispatch", "cleanup", "shutdown", "done"}
            /\ pc \in {"cleanup", "shutdown", "done"} =>
                    /\ Len(dispatches) = 1
                    /\ dispatches[1].kind = "post"
                    /\ dispatches[1].image = "none"
                    /\ dispatches[1].text =
                            append_required_text(enforced, Get(config.required_text))

\* The download of the image failed and the post was sent without media.
C16_Witness ==
    /\ pc = "done"
    /\ lookups = <<"download_failed">>
    /\ Len(dispatches) = 1
    /\ dispatches[1].outcome = "sent"
    /\ dispatches[1].image = "none"
    /\ dispatches[1].text = Str(Hello)

(***************************************************************************)
(* Claims about what a failed run logs, checked under Spec.                *)
(***************************************************************************)
\* The run has ended in order after a successful login, with no dispatch
\* attempt.
EndedWithoutDispatch ==
    /\ pc = "done"
    /\ login = "ok"
    /\ raised = "none"
    /\ dispatches = <<>>

\* C17: every run that ends after a successful login without a dispatch
\* attempt, its strategy having failed, has logged a message at WARN or ERROR.
C17_FailedRunHasLogged ==
    EndedWithoutDispatch => \E i \in 1..Len(logs) : logs[i] \in {"WARN", "ERROR"}

(***************************************************************************)
(* Claims about the AI Client, checked under SpecAi.                       *)
(***************************************************************************)
FailureKinds ==
    {"transport_error", "timeout", "not_json", "no_candidates", "no_content", "safety"}

\* C18: an invocation of call_ai_model sends one request and no second one,
\* whatever the first was answered; it returns no text when the transport
\* raised, the request timed out, the answer was malformed or had no
\* candidates, or the first candidate was stopped for SAFETY; it returns a
\* text only from an answer that has one; and no exception leaves it.
C18_OneRequestNoRaise ==
    pc = "ai_return" =>
        /\ ai.requests <= 1
        /\ aiCalls = SubSeq(ai.answers, 1, ai.requests)
        /\ ~ai.raises /\ raised = "none"
        /\ ai.answers[1].kind \in FailureKinds => ai.value = None
        /\ ai.value # None =>
                /\ ai.answers[1].kind = "ok"
                /\ ai.value = call_ai_model(ai.answers[1], ai.skip_json_parse).value

\* The request timed out, a second request would have been answered with a
\* text, and the invocation returned nothing after one request.
C18_Witness ==
    /\ pc = "ai_return"
    /\ ai.answers[1].kind = "timeout"
    /\ ai.answers[2].kind = "ok" /\ ai.answers[2].text # <<>>
    /\ ai.requests = 1
    /\ ai.value = None
    /\ logs = <<"ERROR">>

(***************************************************************************)
(* Claims about the browser session, checked under Spec.                   *)
(***************************************************************************)
\* C19: when run_action_cycle ends after the browser was started, the
\* session has been quit exactly once, whatever happened in between.
C19_SessionQuitOnce ==
    pc = "done" /\ driver # "none" => driver = "quit" /\ quits = 1

(***************************************************************************)
(* Claims about the history log, checked under SpecHistory.                *)
(***************************************************************************)
Published == {dispatches[j].text : j \in 1..Len(dispatches)}

\* C20: tweet_history is empty after any sequence of prompt builds and
\* dispatches, successful ones included; every prompt built carries the "No
\* recent activity." marker as its history, and none carries a text that was
\* published.
C20_HistoryStaysEmpty ==
    /\ tweet_history = <<>>
    /\ \A i \in 1..Len(prompts) :
          /\ prompts[i].history_context = NoRecentActivity
          /\ \A t \in Published : prompts[i].history_context # Format(t)

\* A post was sent, and the prompt built after it carries the marker.
C20_Witness ==
    /\ Len(trace) >= 2
    /\ trace[1] = "DISPATCH" /\ trace[2] = "BUILD_PROMPT"
    /\ dispatches[1].outcome = "sent" /\ dispatches[1].text = Str(Hello)
    /\ prompts[1].history_context = NoRecentActivity
    /\ tweet_history = <<>>

(***************************************************************************)
(* Claims about the choice of the strategy of a post, checked under Spec.  *)
(***************************************************************************)
\* A post action was selected and perform_post_action is past its choice of
\* a strategy.
PostChosen ==
    /\ action_type = "post"
    /\ pc \notin {"setup", "login", "select", "generate"}

TrendModes == {"absent", "strategic_mix", "post_only_controversy"}

\* C21: in a post run the strategy run is the trend-derived one when
\* auto_niche is true, whatever the action_mode; otherwise it is the
\* trend-derived one for strategic_mix (also when action_mode is missing) and
\* post_only_controversy, the news-derived one for post_only_news, the
\* document-derived one for post_only_word, and none for any other
\* action_mode, and then the run makes no AI call and no dispatch attempt and
\* raises no error.
C21_StrategyByNicheAndMode ==
    PostChosen =>
        /\ config.auto_niche => strategies = <<"trends">>
        /\ ~config.auto_niche /\ config.action_mode \in TrendModes
                => strategies = <<"trends">>
        /\ ~config.auto_niche /\ config.action_mode = "post_only_news"
                => strategies = <<"news">>
        /\ ~config.auto_niche /\ config.action_mode = "post_only_word"
                => strategies = <<"word">>
        /\ ~config.auto_niche
             /\ config.action_mode \notin TrendModes \cup {"post_only_news", "post_only_word"}
                => /\ strategies = <<>>
                   /\ aiCalls = <<>>
                   /\ prompts = <<>>
                   /\ dispatches = <<>>
                   /\ raised = "none"
                   /\ pc \in {"shutdown", "done"}

\* With auto_niche true and action_mode post_only_word the trend-derived
\* strategy ran and its text was sent.
C21_Witness ==
    /\ pc = "done"
    /\ action_type = "post"
    /\ config.auto_niche /\ config.action_mode = "post_only_word"
    /\ strategies = <<"trends">>
    /\ source.strategy = "trends"
    /\ Len(dispatches) = 1 /\ dispatches[1].outcome = "sent"
====
